---- MODULE Spec2Model ----
(***************************************************************************)
(* A model of src/imdb.py: the interactive IMDb lookup run by main().      *)
(* Text that the program inspects character by character (operator input   *)
(* parsed by int(), catalogue ids matched by the regular expression, the   *)
(* slash-delimited id path of a search hit) is a sequence of one-character *)
(* strings.  Text that is only compared or copied (titles, names) is a     *)
(* TLA+ string.  A Python dict is a record; an absent key is an absent     *)
(* field.  Formatting of a rendered block keeps its fields, not padding.   *)
(***************************************************************************)
EXTENDS Integers, Sequences, FiniteSets

VARIABLES pc, search_type, qString, imdb_id, title_list, user_selection,
          credits, alternate_titles, idx, repeats, results, error, trace

vars == <<pc, search_type, qString, imdb_id, title_list, user_selection,
          credits, alternate_titles, idx, repeats, results, error, trace>>

\* ---------------------------------------------------------------- bounds
\* Most "Invalid Entry." rounds one run of the selection prompt may take.
MaxInvalid == 2
\* Longest alternateTitles sequence a response carries.
MaxTitles == 3

\* ------------------------------------------------------ program constants
RESULT_COUNT == 3

search_options == [title |-> 1, id |-> 2]

\* ------------------------------------------------------------ Python bits
None == <<"<None>">>
Unbound == [unbound |-> TRUE]
NoError == [raised |-> FALSE]

\* A character the module's string syntax cannot spell (a control character
\* other than \t \n \f \r, or any character beyond ASCII) is named by its code
\* point: "U+00A0" is the no-break space, "U+0662" the Arabic-Indic digit two,
\* "U+0060" the grave accent.

Digits == {"0", "1", "2", "3", "4", "5", "6", "7", "8", "9"}

AsciiDigits == <<"0", "1", "2", "3", "4", "5", "6", "7", "8", "9">>

\* The characters int() skips at either end of its text.
Whitespace ==
    {"\t", "\n", "U+000B", "\f", "\r", " ", "U+0085", "U+00A0", "U+1680", "U+2000",
      "U+2001", "U+2002", "U+2003", "U+2004", "U+2005", "U+2006", "U+2007", "U+2008",
      "U+2009", "U+200A", "U+2028", "U+2029", "U+202F", "U+205F", "U+3000" }

\* The decimal digits beyond ASCII that int() reads, the k-th set holding the
\* digits of value k - 1.
UnicodeDigits ==
    << {"U+0660", "U+06F0", "U+07C0", "U+0966", "U+09E6", "U+0A66", "U+0AE6",
         "U+0B66", "U+0BE6", "U+0C66", "U+0CE6", "U+0D66", "U+0DE6", "U+0E50",
         "U+0ED0", "U+0F20", "U+1040", "U+1090", "U+17E0", "U+1810", "U+1946",
         "U+19D0", "U+1A80", "U+1A90", "U+1B50", "U+1BB0", "U+1C40", "U+1C50",
         "U+A620", "U+A8D0", "U+A900", "U+A9D0", "U+A9F0", "U+AA50", "U+ABF0",
         "U+FF10", "U+104A0", "U+10D30", "U+11066", "U+110F0", "U+11136", "U+111D0",
         "U+112F0", "U+11450", "U+114D0", "U+11650", "U+116C0", "U+11730", "U+118E0",
         "U+11950", "U+11C50", "U+11D50", "U+11DA0", "U+16A60", "U+16AC0", "U+16B50",
         "U+1D7CE", "U+1D7D8", "U+1D7E2", "U+1D7EC", "U+1D7F6", "U+1E140", "U+1E2F0",
         "U+1E950", "U+1FBF0" },
       {"U+0661", "U+06F1", "U+07C1", "U+0967", "U+09E7", "U+0A67", "U+0AE7",
         "U+0B67", "U+0BE7", "U+0C67", "U+0CE7", "U+0D67", "U+0DE7", "U+0E51",
         "U+0ED1", "U+0F21", "U+1041", "U+1091", "U+17E1", "U+1811", "U+1947",
         "U+19D1", "U+1A81", "U+1A91", "U+1B51", "U+1BB1", "U+1C41", "U+1C51",
         "U+A621", "U+A8D1", "U+A901", "U+A9D1", "U+A9F1", "U+AA51", "U+ABF1",
         "U+FF11", "U+104A1", "U+10D31", "U+11067", "U+110F1", "U+11137", "U+111D1",
         "U+112F1", "U+11451", "U+114D1", "U+11651", "U+116C1", "U+11731", "U+118E1",
         "U+11951", "U+11C51", "U+11D51", "U+11DA1", "U+16A61", "U+16AC1", "U+16B51",
         "U+1D7CF", "U+1D7D9", "U+1D7E3", "U+1D7ED", "U+1D7F7", "U+1E141", "U+1E2F1",
         "U+1E951", "U+1FBF1" },
       {"U+0662", "U+06F2", "U+07C2", "U+0968", "U+09E8", "U+0A68", "U+0AE8",
         "U+0B68", "U+0BE8", "U+0C68", "U+0CE8", "U+0D68", "U+0DE8", "U+0E52",
         "U+0ED2", "U+0F22", "U+1042", "U+1092", "U+17E2", "U+1812", "U+1948",
         "U+19D2", "U+1A82", "U+1A92", "U+1B52", "U+1BB2", "U+1C42", "U+1C52",
         "U+A622", "U+A8D2", "U+A902", "U+A9D2", "U+A9F2", "U+AA52", "U+ABF2",
         "U+FF12", "U+104A2", "U+10D32", "U+11068", "U+110F2", "U+11138", "U+111D2",
         "U+112F2", "U+11452", "U+114D2", "U+11652", "U+116C2", "U+11732", "U+118E2",
         "U+11952", "U+11C52", "U+11D52", "U+11DA2", "U+16A62", "U+16AC2", "U+16B52",
         "U+1D7D0", "U+1D7DA", "U+1D7E4", "U+1D7EE", "U+1D7F8", "U+1E142", "U+1E2F2",
         "U+1E952", "U+1FBF2" },
       {"U+0663", "U+06F3", "U+07C3", "U+0969", "U+09E9", "U+0A69", "U+0AE9",
         "U+0B69", "U+0BE9", "U+0C69", "U+0CE9", "U+0D69", "U+0DE9", "U+0E53",
         "U+0ED3", "U+0F23", "U+1043", "U+1093", "U+17E3", "U+1813", "U+1949",
         "U+19D3", "U+1A83", "U+1A93", "U+1B53", "U+1BB3", "U+1C43", "U+1C53",
         "U+A623", "U+A8D3", "U+A903", "U+A9D3", "U+A9F3", "U+AA53", "U+ABF3",
         "U+FF13", "U+104A3", "U+10D33", "U+11069", "U+110F3", "U+11139", "U+111D3",
         "U+112F3", "U+11453", "U+114D3", "U+11653", "U+116C3", "U+11733", "U+118E3",
         "U+11953", "U+11C53", "U+11D53", "U+11DA3", "U+16A63", "U+16AC3", "U+16B53",
         "U+1D7D1", "U+1D7DB", "U+1D7E5", "U+1D7EF", "U+1D7F9", "U+1E143", "U+1E2F3",
         "U+1E953", "U+1FBF3" },
       {"U+0664", "U+06F4", "U+07C4", "U+096A", "U+09EA", "U+0A6A", "U+0AEA",
         "U+0B6A", "U+0BEA", "U+0C6A", "U+0CEA", "U+0D6A", "U+0DEA", "U+0E54",
         "U+0ED4", "U+0F24", "U+1044", "U+1094", "U+17E4", "U+1814", "U+194A",
         "U+19D4", "U+1A84", "U+1A94", "U+1B54", "U+1BB4", "U+1C44", "U+1C54",
         "U+A624", "U+A8D4", "U+A904", "U+A9D4", "U+A9F4", "U+AA54", "U+ABF4",
         "U+FF14", "U+104A4", "U+10D34", "U+1106A", "U+110F4", "U+1113A", "U+111D4",
         "U+112F4", "U+11454", "U+114D4", "U+11654", "U+116C4", "U+11734", "U+118E4",
         "U+11954", "U+11C54", "U+11D54", "U+11DA4", "U+16A64", "U+16AC4", "U+16B54",
         "U+1D7D2", "U+1D7DC", "U+1D7E6", "U+1D7F0", "U+1D7FA", "U+1E144", "U+1E2F4",
         "U+1E954", "U+1FBF4" },
       {"U+0665", "U+06F5", "U+07C5", "U+096B", "U+09EB", "U+0A6B", "U+0AEB",
         "U+0B6B", "U+0BEB", "U+0C6B", "U+0CEB", "U+0D6B", "U+0DEB", "U+0E55",
         "U+0ED5", "U+0F25", "U+1045", "U+1095", "U+17E5", "U+1815", "U+194B",
         "U+19D5", "U+1A85", "U+1A95", "U+1B55", "U+1BB5", "U+1C45", "U+1C55",
         "U+A625", "U+A8D5", "U+A905", "U+A9D5", "U+A9F5", "U+AA55", "U+ABF5",
         "U+FF15", "U+104A5", "U+10D35", "U+1106B", "U+110F5", "U+1113B", "U+111D5",
         "U+112F5", "U+11455", "U+114D5", "U+11655", "U+116C5", "U+11735", "U+118E5",
         "U+11955", "U+11C55", "U+11D55", "U+11DA5", "U+16A65", "U+16AC5", "U+16B55",
         "U+1D7D3", "U+1D7DD", "U+1D7E7", "U+1D7F1", "U+1D7FB", "U+1E145", "U+1E2F5",
         "U+1E955", "U+1FBF5" },
       {"U+0666", "U+06F6", "U+07C6", "U+096C", "U+09EC", "U+0A6C", "U+0AEC",
         "U+0B6C", "U+0BEC", "U+0C6C", "U+0CEC", "U+0D6C", "U+0DEC", "U+0E56",
         "U+0ED6", "U+0F26", "U+1046", "U+1096", "U+17E6", "U+1816", "U+194C",
         "U+19D6", "U+1A86", "U+1A96", "U+1B56", "U+1BB6", "U+1C46", "U+1C56",
         "U+A626", "U+A8D6", "U+A906", "U+A9D6", "U+A9F6", "U+AA56", "U+ABF6",
         "U+FF16", "U+104A6", "U+10D36", "U+1106C", "U+110F6", "U+1113C", "U+111D6",
         "U+112F6", "U+11456", "U+114D6", "U+11656", "U+116C6", "U+11736", "U+118E6",
         "U+11956", "U+11C56", "U+11D56", "U+11DA6", "U+16A66", "U+16AC6", "U+16B56",
         "U+1D7D4", "U+1D7DE", "U+1D7E8", "U+1D7F2", "U+1D7FC", "U+1E146", "U+1E2F6",
         "U+1E956", "U+1FBF6" },
       {"U+0667", "U+06F7", "U+07C7", "U+096D", "U+09ED", "U+0A6D", "U+0AED",
         "U+0B6D", "U+0BED", "U+0C6D", "U+0CED", "U+0D6D", "U+0DED", "U+0E57",
         "U+0ED7", "U+0F27", "U+1047", "U+1097", "U+17E7", "U+1817", "U+194D",
         "U+19D7", "U+1A87", "U+1A97", "U+1B57", "U+1BB7", "U+1C47", "U+1C57",
         "U+A627", "U+A8D7", "U+A907", "U+A9D7", "U+A9F7", "U+AA57", "U+ABF7",
         "U+FF17", "U+104A7", "U+10D37", "U+1106D", "U+110F7", "U+1113D", "U+111D7",
         "U+112F7", "U+11457", "U+114D7", "U+11657", "U+116C7", "U+11737", "U+118E7",
         "U+11957", "U+11C57", "U+11D57", "U+11DA7", "U+16A67", "U+16AC7", "U+16B57",
         "U+1D7D5", "U+1D7DF", "U+1D7E9", "U+1D7F3", "U+1D7FD", "U+1E147", "U+1E2F7",
         "U+1E957", "U+1FBF7" },
       {"U+0668", "U+06F8", "U+07C8", "U+096E", "U+09EE", "U+0A6E", "U+0AEE",
         "U+0B6E", "U+0BEE", "U+0C6E", "U+0CEE", "U+0D6E", "U+0DEE", "U+0E58",
         "U+0ED8", "U+0F28", "U+1048", "U+1098", "U+17E8", "U+1818", "U+194E",
         "U+19D8", "U+1A88", "U+1A98", "U+1B58", "U+1BB8", "U+1C48", "U+1C58",
         "U+A628", "U+A8D8", "U+A908", "U+A9D8", "U+A9F8", "U+AA58", "U+ABF8",
         "U+FF18", "U+104A8", "U+10D38", "U+1106E", "U+110F8", "U+1113E", "U+111D8",
         "U+112F8", "U+11458", "U+114D8", "U+11658", "U+116C8", "U+11738", "U+118E8",
         "U+11958", "U+11C58", "U+11D58", "U+11DA8", "U+16A68", "U+16AC8", "U+16B58",
         "U+1D7D6", "U+1D7E0", "U+1D7EA", "U+1D7F4", "U+1D7FE", "U+1E148", "U+1E2F8",
         "U+1E958", "U+1FBF8" },
       {"U+0669", "U+06F9", "U+07C9", "U+096F", "U+09EF", "U+0A6F", "U+0AEF",
         "U+0B6F", "U+0BEF", "U+0C6F", "U+0CEF", "U+0D6F", "U+0DEF", "U+0E59",
         "U+0ED9", "U+0F29", "U+1049", "U+1099", "U+17E9", "U+1819", "U+194F",
         "U+19D9", "U+1A89", "U+1A99", "U+1B59", "U+1BB9", "U+1C49", "U+1C59",
         "U+A629", "U+A8D9", "U+A909", "U+A9D9", "U+A9F9", "U+AA59", "U+ABF9",
         "U+FF19", "U+104A9", "U+10D39", "U+1106F", "U+110F9", "U+1113F", "U+111D9",
         "U+112F9", "U+11459", "U+114D9", "U+11659", "U+116C9", "U+11739", "U+118E9",
         "U+11959", "U+11C59", "U+11D59", "U+11DA9", "U+16A69", "U+16AC9", "U+16B59",
         "U+1D7D7", "U+1D7E1", "U+1D7EB", "U+1D7F5", "U+1D7FF", "U+1E149", "U+1E2F9",
         "U+1E959", "U+1FBF9" } >>

DecimalDigits == Digits \cup UNION {UnicodeDigits[v] : v \in 1..10}

DigitVal(c) ==
    IF c \in Digits THEN (CHOOSE v \in 1..10 : AsciiDigits[v] = c) - 1
    ELSE (CHOOSE v \in 1..10 : c \in UnicodeDigits[v]) - 1

\* dict.get(key, default)
Get(d, key, default) == IF key \in DOMAIN d THEN d[key] ELSE default

\* n in range(lo, hi)
InRange(n, lo, hi) == lo <= n /\ n < hi

RECURSIVE StripLeft(_)
StripLeft(s) == IF s # << >> /\ Head(s) \in Whitespace THEN StripLeft(Tail(s)) ELSE s

RECURSIVE StripRight(_)
StripRight(s) ==
    IF s # << >> /\ s[Len(s)] \in Whitespace
    THEN StripRight(SubSeq(s, 1, Len(s) - 1)) ELSE s

RECURSIVE DigitsValue(_)
DigitsValue(s) ==
    IF s = << >> THEN 0 ELSE 10 * DigitsValue(SubSeq(s, 1, Len(s) - 1)) + DigitVal(s[Len(s)])

IsDecimalDigit(c) == c \in DecimalDigits

\* The digit part of an integer literal: decimal digits, with single
\* underscores allowed between two digits.
AllDigits(s) ==
    /\ s # << >>
    /\ \A i \in DOMAIN s : s[i] \in DecimalDigits \cup {"_"}
    /\ s[1] # "_"
    /\ s[Len(s)] # "_"
    /\ \A i \in 1..(Len(s) - 1) : ~(s[i] = "_" /\ s[i + 1] = "_")

\* int(text): whitespace at either end, one optional sign directly before
\* the digits, then decimal digits with optional single underscores between
\* them; anything else raises ValueError, and so do more than 4300 digits
\* (the interpreter's default limit for integer strings).
ParseInt(text) ==
    LET s == StripRight(StripLeft(text))
        signed == s # << >> /\ Head(s) \in {"+", "-"}
        body == IF signed THEN Tail(s) ELSE s
        digits == SelectSeq(body, IsDecimalDigit)
    IN  IF AllDigits(body) /\ Len(digits) <= 4300
        THEN [ok |-> TRUE,
              val |-> IF signed /\ Head(s) = "-" THEN 0 - DigitsValue(digits)
                      ELSE DigitsValue(digits)]
        ELSE [ok |-> FALSE]

\* str.split(sep): the segments between occurrences of sep
RECURSIVE SplitFrom(_, _, _)
SplitFrom(s, sep, cur) ==
    IF s = << >> THEN <<cur>>
    ELSE IF Head(s) = sep THEN <<cur>> \o SplitFrom(Tail(s), sep, << >>)
    ELSE SplitFrom(Tail(s), sep, Append(cur, Head(s)))

Split(s, sep) == SplitFrom(s, sep, << >>)

\* ASCII, for the texts whose characters the program rewrites (language
\* codes, cast categories, titles sent to detection): the printable characters
\* in code order from 32, and the code of each character.
AsciiPrintable ==
    << " ", "!", "\"", "#", "$", "%", "&", "'", "(", ")", "*", "+", ",", "-", ".", "/",
       "0", "1", "2", "3", "4", "5", "6", "7", "8", "9", ":", ";", "<", "=", ">", "?",
       "@", "A", "B", "C", "D", "E", "F", "G", "H", "I", "J", "K", "L", "M", "N", "O",
       "P", "Q", "R", "S", "T", "U", "V", "W", "X", "Y", "Z", "[", "\\", "]", "^", "_",
       "U+0060", "a", "b", "c", "d", "e", "f", "g", "h", "i", "j", "k", "l", "m", "n", "o",
       "p", "q", "r", "s", "t", "u", "v", "w", "x", "y", "z", "{", "|", "}", "~" >>

AsciiLower ==
    << "a", "b", "c", "d", "e", "f", "g", "h", "i", "j", "k", "l", "m",
       "n", "o", "p", "q", "r", "s", "t", "u", "v", "w", "x", "y", "z" >>

AsciiUpper ==
    << "A", "B", "C", "D", "E", "F", "G", "H", "I", "J", "K", "L", "M",
       "N", "O", "P", "Q", "R", "S", "T", "U", "V", "W", "X", "Y", "Z" >>

HexDigits ==
    << "0", "1", "2", "3", "4", "5", "6", "7", "8", "9", "A", "B", "C", "D", "E", "F" >>

AsciiCode(c) ==
    CASE c = "\t" -> 9
      [] c = "\n" -> 10
      [] c = "U+000B" -> 11
      [] c = "\f" -> 12
      [] c = "\r" -> 13
      [] OTHER -> 31 + CHOOSE i \in 1..95 : AsciiPrintable[i] = c

IsLower(c) == \E i \in 1..26 : AsciiLower[i] = c
IsUpper(c) == \E i \in 1..26 : AsciiUpper[i] = c

\* An ASCII character that is no letter; a character outside ASCII has no
\* code here, so the case rules below are not defined on it.
Caseless(c) == AsciiCode(c) \in 9..126

UpperChar(c) ==
    CASE IsLower(c) -> AsciiUpper[CHOOSE i \in 1..26 : AsciiLower[i] = c]
      [] IsUpper(c) -> c
      [] ~IsLower(c) /\ ~IsUpper(c) /\ Caseless(c) -> c

LowerChar(c) ==
    CASE IsUpper(c) -> AsciiLower[CHOOSE i \in 1..26 : AsciiUpper[i] = c]
      [] IsLower(c) -> c
      [] ~IsLower(c) /\ ~IsUpper(c) /\ Caseless(c) -> c

\* str.upper()
Upper(s) == [i \in DOMAIN s |-> UpperChar(s[i])]

\* str.title(): a letter that follows a letter is lowered, a letter that
\* starts the text or follows any other character is raised.
RECURSIVE TitleFrom(_, _)
TitleFrom(s, after_letter) ==
    IF s = << >> THEN << >>
    ELSE LET c == Head(s)
             letter == IsLower(c) \/ IsUpper(c)
             out == IF ~letter THEN UpperChar(c)
                    ELSE IF after_letter THEN LowerChar(c) ELSE UpperChar(c)
         IN  <<out>> \o TitleFrom(Tail(s), letter)

TitleCase(s) == TitleFrom(s, FALSE)

\* urllib.parse.quote(text) with its default safe='/': letters, digits and
\* _ . - ~ / pass, every other character becomes % and the two hexadecimal
\* digits of its code.
QuoteChar(c) ==
    IF IsLower(c) \/ IsUpper(c) \/ c \in Digits \/ c \in {"_", ".", "-", "~", "/"}
    THEN <<c>>
    ELSE <<"%", HexDigits[(AsciiCode(c) \div 16) + 1], HexDigits[(AsciiCode(c) % 16) + 1]>>

RECURSIVE Quote(_)
Quote(s) == IF s = << >> THEN << >> ELSE QuoteChar(Head(s)) \o Quote(Tail(s))

\* Texts of the model that are rewritten character by character.
NA == <<"N", "A">>
TitleElCid == <<"E", "l", " ", "C", "i", "d">>
TitleElCidLower == <<"e", "l", " ", "c", "i", "d">>
CategoryActor == <<"a", "c", "t", "o", "r">>
CategoryActress == <<"a", "c", "t", "r", "e", "s", "s">>
LanguageEn == <<"e", "n">>

\* ------------------------------------------------------- pure functions
construct_query(q_data, is_title) ==
    IF is_title THEN [q |-> q_data] ELSE [tconst |-> q_data]

\* One line of display_search_results, for the hit at Python index `index`.
SearchLine(titles, index) ==
    LET hit == titles[index + 1]
    IN  [index |-> index + 1,
         type |-> Get(hit, "titleType", "AKA"),
         title |-> Get(hit, "title", Get(hit, "name", "Not Found"))]

\* titles[index] for index in range(display): an IndexError when the list is
\* shorter than display, otherwise the rendered lines.
display_search_results(titles, display) ==
    IF Len(titles) < display
    THEN [ok |-> FALSE, exc |-> "IndexError", line |-> 58]
    ELSE [ok |-> TRUE, text |-> [i \in 1..display |-> SearchLine(titles, i - 1)]]

\* SelectionAttempt without line 78's adjustment to an index: the property of
\* the selected index must reject it.
SelectionAttemptUnadjusted(text, result_count) ==
    LET p == ParseInt(text)
    IN  IF ~p.ok THEN [sel |-> [t |-> "str", s |-> text], invalid |-> TRUE]
        ELSE IF ~InRange(p.val, 1, result_count + 1)
        THEN [sel |-> [t |-> "int", n |-> p.val], invalid |-> TRUE]
        ELSE [sel |-> [t |-> "int", n |-> p.val], invalid |-> FALSE]

\* The body of one round of get_user_selection's loop on the entry `text`:
\* the value user_selection holds afterwards and whether 'Invalid Entry.' was
\* printed.  When int() raises, user_selection keeps the text; when the range
\* test raises, it keeps the parsed integer.
SelectionAttempt(text, result_count) ==
    LET p == ParseInt(text)
    IN  IF ~p.ok THEN [sel |-> [t |-> "str", s |-> text], invalid |-> TRUE]
        ELSE IF ~InRange(p.val, 1, result_count + 1)
        THEN [sel |-> [t |-> "int", n |-> p.val], invalid |-> TRUE]
        ELSE [sel |-> [t |-> "int", n |-> p.val - 1], invalid |-> FALSE]

\* while user_selection not in range(result_count+1)
LoopContinues(sel, result_count) ==
    ~(sel.t = "int" /\ InRange(sel.n, 0, result_count + 1))

PersonName(p) == Get(p, "legacyNameText", Get(p, "name", "NA"))

CastLine(p) == [category |-> TitleCase(Get(p, "category", NA)), name |-> PersonName(p)]

\* display_title_credits: the subscripts are evaluated in source order, the
\* first missing key or position raising (cast[k] is read on line 103 + k).
display_title_credits(title, shown_id) ==
    IF "base" \notin DOMAIN title THEN [ok |-> FALSE, exc |-> "KeyError", line |-> 93]
    ELSE IF "cast" \notin DOMAIN title THEN [ok |-> FALSE, exc |-> "KeyError", line |-> 94]
    ELSE IF "crew" \notin DOMAIN title THEN [ok |-> FALSE, exc |-> "KeyError", line |-> 95]
    ELSE IF "director" \notin DOMAIN title.crew
    THEN [ok |-> FALSE, exc |-> "KeyError", line |-> 95]
    ELSE IF Len(title.crew.director) < 1
    THEN [ok |-> FALSE, exc |-> "IndexError", line |-> 95]
    ELSE IF Len(title.cast) < 3
    THEN [ok |-> FALSE, exc |-> "IndexError", line |-> 103 + Len(title.cast)]
    ELSE [ok |-> TRUE,
          text |-> [title |-> Get(title.base, "title", Get(title.base, "name", "NA")),
                    type |-> Get(title.base, "titleType", "NA"),
                    year |-> Get(title.base, "year", "Unavailable"),
                    imdb |-> shown_id,
                    cast |-> <<CastLine(title.cast[1]), CastLine(title.cast[2]),
                               CastLine(title.cast[3])>>,
                    director |-> PersonName(title.crew.director[1])]]

\* convert_imdb_id with the length test off by one (>= 9): the property of
\* the displayed id must reject it.
convert_imdb_id_from_9(id) == IF Len(id) >= 9 THEN Tail(id) ELSE id

convert_imdb_id(id) == IF Len(id) > 9 THEN Tail(id) ELSE id

\* The pattern without its closing $: any text that begins with a catalogue
\* id passes.  The property of the id validation must reject it.
MatchesImdbIdPrefix(s) ==
    /\ Len(s) >= 9
    /\ s[1] = "t"
    /\ s[2] = "t"
    /\ \A i \in 3..9 : s[i] \in Digits

\* re.search(r"^tt[0-9]{7,8}$", s): "tt", seven or eight ASCII digits, then the
\* end of the text ($ also matches just before one final newline).
MatchesImdbId(s) ==
    LET core == IF s # << >> /\ s[Len(s)] = "\n" THEN SubSeq(s, 1, Len(s) - 1) ELSE s
    IN  /\ Len(core) \in {9, 10}
        /\ core[1] = "t"
        /\ core[2] = "t"
        /\ \A i \in 3..Len(core) : core[i] \in Digits

\* selected_title['id'].split('/')[2]
ExtractImdbId(hit) ==
    IF "id" \notin DOMAIN hit THEN [ok |-> FALSE, exc |-> "KeyError", line |-> 177]
    ELSE LET parts == Split(hit.id, "/")
         IN  IF Len(parts) < 3 THEN [ok |-> FALSE, exc |-> "IndexError", line |-> 177]
             ELSE [ok |-> TRUE, id |-> parts[3]]

\* data['data']['detections'][0][0]['language'].upper() on a decoded answer
DetectedLanguage(data) ==
    IF "data" \notin DOMAIN data THEN [ok |-> FALSE, exc |-> "KeyError", line |-> 44]
    ELSE IF "detections" \notin DOMAIN data.data THEN [ok |-> FALSE, exc |-> "KeyError", line |-> 44]
    ELSE IF Len(data.data.detections) < 1 THEN [ok |-> FALSE, exc |-> "IndexError", line |-> 44]
    ELSE IF Len(data.data.detections[1]) < 1 THEN [ok |-> FALSE, exc |-> "IndexError", line |-> 44]
    ELSE IF "language" \notin DOMAIN data.data.detections[1][1]
    THEN [ok |-> FALSE, exc |-> "KeyError", line |-> 44]
    ELSE [ok |-> TRUE, language |-> Upper(data.data.detections[1][1].language)]

\* entry.get('title', '') : another default for a missing title.  The property
\* of title-less entries must reject it.
EntryTitleBlank(entry) == Get(entry, "title", << >>)

\* entry.get('title', 'NA')
EntryTitle(entry) == Get(entry, "title", NA)

\* str.lower()
Lower(s) == [i \in DOMAIN s |-> LowerChar(s[i])]

\* A membership test that ignores case.  The property of exact, case-sensitive
\* deduplication must reject it.
AlreadySeenAnyCase(title, seen) == Lower(title) \in {Lower(x) : x \in seen}

\* title not in repeats, negated: the title was met earlier in the sequence
AlreadySeen(title, seen) == title \in seen

AltLine(language, title) == [language |-> language, title |-> title]

\* ------------------------------------------------- what the run can be fed
ID_9 == <<"t", "t", "0", "1", "3", "3", "0", "9", "3">>
ID_10 == <<"t", "t", "0", "1", "2", "3", "4", "5", "6", "7">>

\* Entries the operator can type at "Enter Search Type: "
ModeInputs ==
    { <<"1">>, <<"2">>, <<" ", "2">>, <<"\t", "0", "_", "2", "\r">>, <<"U+0662">>,
      <<"3">>, <<"0">>, <<"-", "1">>, <<"2", "_">>, <<"+", " ", "2">>,
      <<"a", "b", "c">>, <<"1", ".", "0">>, << >> }

\* Entries the operator can type at "Enter production title: "
SearchTexts == {"matrix"}

\* Entries the operator can type at "Enter title number: "
SelectionInputs ==
    { <<"a", "b", "c">>, <<"9">>, <<"-", "1">>, <<"0">>, <<"1">>, <<"2">>, <<"3">> }

\* Entries the operator can type at "Enter IMDb ID: "
IdInputs ==
    { ID_9, ID_10,
      <<"t", "t", "0", "1", "3", "3", "0", "9">>,
      <<"t", "t", "0", "1", "2", "3", "4", "5", "6", "7", "8">>,
      <<"n", "m", "0", "1", "3", "3", "0", "9", "3">>,
      <<"t", "t", "0", "1", "3", "3", "0", "a", "3">>,
      <<" ">> \o ID_9,
      ID_9 \o <<"x">>,
      << >> }

\* requests or json.loads raising inside request_imdb_data / request_lang_detection
RemoteFail == [fail |-> TRUE]

IdPath(id) == <<"/", "t", "i", "t", "l", "e", "/">> \o id \o <<"/">>

HitA == [titleType |-> "movie", title |-> "The Matrix", id |-> IdPath(ID_9)]
HitB == [name |-> "Matrix Reloaded", id |-> IdPath(ID_10)]
HitC == [titleType |-> "short", id |-> ID_9]
HitD == [title |-> "Matrix"]

HitLists ==
    { << >>, <<HitA, HitB>>, <<HitA, HitB, HitC>>, <<HitD, HitC, HitA, HitB>> }

SearchResponses ==
    {RemoteFail, [message |-> "quota"]} \cup {[results |-> h] : h \in HitLists}

Person1 == [category |-> CategoryActor, legacyNameText |-> "Reeves, Keanu", name |-> "Keanu Reeves"]
Person2 == [category |-> CategoryActress, name |-> "Carrie-Anne Moss"]
Person3 == [id |-> "/name/nm0000401/"]

Base1 == [title |-> "The Matrix", titleType |-> "movie"]

CreditsResponses ==
    { RemoteFail,
      [message |-> "quota"],
      [base |-> Base1, cast |-> <<Person1, Person2, Person3>>,
       crew |-> [director |-> <<Person2, Person1>>]],
      [base |-> Base1, cast |-> <<Person1, Person2>>, crew |-> [director |-> <<Person3>>]],
      [base |-> Base1, cast |-> << >>, crew |-> [director |-> <<Person3>>]],
      [base |-> Base1, cast |-> <<Person1, Person2, Person3>>, crew |-> [director |-> << >>]] }

\* An alternate-title record: with a title, or with none.
NoTitleEntry == [region |-> "FR"]
AltEntries ==
    { [title |-> TitleElCid], [title |-> TitleElCidLower], [title |-> NA], NoTitleEntry }

RECURSIVE SeqsUpTo(_, _)
SeqsUpTo(S, n) ==
    IF n = 0 THEN {<< >>}
    ELSE LET shorter == SeqsUpTo(S, n - 1)
         IN  shorter \cup {Append(q, e) : q \in shorter, e \in S}

AltResponses ==
    {RemoteFail, [message |-> "quota"]}
        \cup {[alternateTitles |-> q] : q \in SeqsUpTo(AltEntries, MaxTitles)}

DetectResponses ==
    { RemoteFail,
      [data |-> [detections |-> << >>]],
      [data |-> [detections |-> << <<[language |-> LanguageEn]>> >>]] }

\* ------------------------------------------------------------- the trace
\* Everything the run does that its console or the network can observe, in
\* the order it happens.
Printed(kind, body) == [ev |-> "print", kind |-> kind, body |-> body]
Input(prompt, text) == [ev |-> "input", prompt |-> prompt, text |-> text]
Request(url, params) == [ev |-> "request", url |-> url, params |-> params]
Response(url, ok) == [ev |-> "response", url |-> url, ok |-> ok]

InvalidCount ==
    Cardinality({i \in DOMAIN trace :
                    trace[i].ev = "print" /\ trace[i].kind = "Invalid Entry."})

\* An uncaught exception raised on source line `line`: the run ends with a
\* traceback.
Raise(exc, line) ==
    /\ pc' = "Crash"
    /\ error' = [raised |-> TRUE, exc |-> exc, line |-> line]

\* ------------------------------------------------------------------ Init
Init ==
    /\ pc = "ChooseMode"
    /\ search_type = Unbound
    /\ qString = None
    /\ imdb_id = None
    /\ title_list = Unbound
    /\ user_selection = Unbound
    /\ credits = Unbound
    /\ alternate_titles = Unbound
    /\ idx = 0
    /\ repeats = {}
    /\ results = << >>
    /\ error = NoError
    /\ trace = << >>

\* --------------------------------------------------------------- actions
\* int(search_type) succeeded and the value is one of search_options.values()
ValidSearchType(p) == p.ok /\ p.val \in {search_options.title, search_options.id}

\* The branch main takes on a validated search type.
ModeBranch(val) ==
    IF val = search_options.title THEN "SearchByTitle"
    ELSE IF val = search_options.id THEN "SearchById"
    ELSE "FetchCredits"

\* Mode prompts issued so far.
ModePrompts ==
    Cardinality({i \in DOMAIN trace :
                    trace[i].ev = "input" /\ trace[i].prompt = "Enter Search Type: "})

\* ChooseMode asking once more after an invalid entry instead of leaving.  The
\* property of the single mode prompt must reject it.
ChooseModeAgain ==
    /\ pc = "ChooseMode"
    /\ ModePrompts < 2
    /\ \E text \in ModeInputs :
         LET p == ParseInt(text)
             asked == trace \o <<Printed("menu", search_options),
                                 Input("Enter Search Type: ", text)>>
         IN  /\ search_type' = IF p.ok THEN [t |-> "int", n |-> p.val]
                               ELSE [t |-> "str", s |-> text]
             /\ IF ValidSearchType(p)
                THEN /\ pc' = ModeBranch(p.val)
                     /\ trace' = asked
                ELSE /\ pc' = "ChooseMode"
                     /\ trace' = Append(asked, Printed("Invalid Selecton.", << >>))
    /\ UNCHANGED <<qString, imdb_id, title_list, user_selection, credits,
                   alternate_titles, idx, repeats, results, error>>

\* Lines 153-162: the menu, the mode entry and its validation; an invalid
\* entry prints 'Invalid Selecton.' and leaves through sys.exit().
ChooseMode ==
    /\ pc = "ChooseMode"
    /\ \E text \in ModeInputs :
         LET p == ParseInt(text)
             asked == trace \o <<Printed("menu", search_options),
                                 Input("Enter Search Type: ", text)>>
         IN  /\ search_type' = IF p.ok THEN [t |-> "int", n |-> p.val]
                               ELSE [t |-> "str", s |-> text]
             /\ IF ValidSearchType(p)
                THEN /\ pc' = ModeBranch(p.val)
                     /\ trace' = asked
                ELSE /\ pc' = "Exit"
                     /\ trace' = Append(asked, Printed("Invalid Selecton.", << >>))
    /\ UNCHANGED <<qString, imdb_id, title_list, user_selection, credits,
                   alternate_titles, idx, repeats, results, error>>

\* Lines 165-170 up to the blocking GET: the title entry, the query and the
\* search request.
SearchByTitle ==
    /\ pc = "SearchByTitle"
    /\ \E text \in SearchTexts :
         /\ qString' = construct_query(text, TRUE)
         /\ trace' = trace \o <<Input("Enter production title: ", text),
                                Request("title_search", construct_query(text, TRUE))>>
    /\ pc' = "SearchWait"
    /\ UNCHANGED <<search_type, imdb_id, title_list, user_selection, credits,
                   alternate_titles, idx, repeats, results, error>>

\* Lines 170-171: the search answer arrives; the top hits are rendered and
\* printed, or the run dies on the failed call or on the shape of the answer.
SearchReturn ==
    /\ pc = "SearchWait"
    /\ \E resp \in SearchResponses :
         IF resp = RemoteFail
         THEN /\ Raise("RemoteServiceError", 30)
              /\ trace' = Append(trace, Response("title_search", FALSE))
              /\ UNCHANGED title_list
         ELSE /\ title_list' = resp
              /\ IF "results" \notin DOMAIN resp
                 THEN /\ Raise("KeyError", 171)
                      /\ trace' = Append(trace, Response("title_search", TRUE))
                 ELSE LET shown == display_search_results(resp.results, RESULT_COUNT)
                      IN  IF shown.ok
                          THEN /\ pc' = "Disambiguate"
                               /\ trace' = trace \o <<Response("title_search", TRUE),
                                                      Printed("search_results", shown.text)>>
                               /\ UNCHANGED error
                          ELSE /\ Raise(shown.exc, shown.line)
                               /\ trace' = Append(trace, Response("title_search", TRUE))
    /\ UNCHANGED <<search_type, qString, imdb_id, user_selection, credits,
                   alternate_titles, idx, repeats, results>>

\* Lines 72-82 and 174-177: one round of get_user_selection's loop; when the
\* loop condition lets the function return, main reads the selected hit and
\* takes the catalogue id from its id path.
Disambiguate ==
    /\ pc = "Disambiguate"
    /\ \E text \in SelectionInputs :
         LET a == SelectionAttempt(text, RESULT_COUNT)
             asked == Append(trace, Input("Enter title number: ", text))
         IN  /\ a.invalid => InvalidCount < MaxInvalid
             /\ user_selection' = a.sel
             /\ trace' = IF a.invalid
                         THEN Append(asked, Printed("Invalid Entry.", << >>))
                         ELSE asked
             /\ IF LoopContinues(a.sel, RESULT_COUNT)
                THEN /\ pc' = "Disambiguate"
                     /\ UNCHANGED <<imdb_id, error>>
                ELSE IF a.sel.n + 1 > Len(title_list.results)
                THEN /\ Raise("IndexError", 176)
                     /\ UNCHANGED imdb_id
                ELSE LET got == ExtractImdbId(title_list.results[a.sel.n + 1])
                     IN  IF got.ok
                         THEN /\ imdb_id' = got.id
                              /\ pc' = "FetchCredits"
                              /\ UNCHANGED error
                         ELSE /\ Raise(got.exc, got.line)
                              /\ UNCHANGED imdb_id
    /\ UNCHANGED <<search_type, qString, title_list, credits, alternate_titles,
                   idx, repeats, results>>

\* Lines 180-183: the id entry and its validation; a malformed id prints
\* 'Invalid ID.' and leaves through sys.exit().
SearchById ==
    /\ pc = "SearchById"
    /\ \E text \in IdInputs :
         LET asked == Append(trace, Input("Enter IMDb ID: ", text))
         IN  /\ imdb_id' = text
             /\ IF MatchesImdbId(text)
                THEN /\ pc' = "FetchCredits"
                     /\ trace' = asked
                ELSE /\ pc' = "Exit"
                     /\ trace' = Append(asked, Printed("Invalid ID.", << >>))
    /\ UNCHANGED <<search_type, qString, title_list, user_selection, credits,
                   alternate_titles, idx, repeats, results, error>>

\* FetchCredits sending the alternate-titles request without waiting for the
\* credits answer.  The property of sequential calls must reject it.
FetchBothAtOnce ==
    /\ pc = "FetchCredits"
    /\ qString' = construct_query(imdb_id, FALSE)
    /\ trace' = trace \o <<Request("get_credits", construct_query(imdb_id, FALSE)),
                           Request("get_versions", construct_query(imdb_id, FALSE))>>
    /\ pc' = "CreditsWait"
    /\ UNCHANGED <<search_type, imdb_id, title_list, user_selection, credits,
                   alternate_titles, idx, repeats, results, error>>

\* Lines 185-187 up to the blocking GET: the id query and the credits request.
FetchCredits ==
    /\ pc = "FetchCredits"
    /\ qString' = construct_query(imdb_id, FALSE)
    /\ trace' = Append(trace, Request("get_credits", construct_query(imdb_id, FALSE)))
    /\ pc' = "CreditsWait"
    /\ UNCHANGED <<search_type, imdb_id, title_list, user_selection, credits,
                   alternate_titles, idx, repeats, results, error>>

\* Lines 187-188: the credits answer arrives and the credits block is
\* rendered with the converted id and printed.
CreditsReturn ==
    /\ pc = "CreditsWait"
    /\ \E resp \in CreditsResponses :
         IF resp = RemoteFail
         THEN /\ Raise("RemoteServiceError", 30)
              /\ trace' = Append(trace, Response("get_credits", FALSE))
              /\ UNCHANGED credits
         ELSE LET shown == display_title_credits(resp, convert_imdb_id(imdb_id))
              IN  /\ credits' = resp
                  /\ IF shown.ok
                     THEN /\ pc' = "FetchAlternateTitles"
                          /\ trace' = trace \o <<Response("get_credits", TRUE),
                                                 Printed("credits", shown.text)>>
                          /\ UNCHANGED error
                     ELSE /\ Raise(shown.exc, shown.line)
                          /\ trace' = Append(trace, Response("get_credits", TRUE))
    /\ UNCHANGED <<search_type, qString, imdb_id, title_list, user_selection,
                   alternate_titles, idx, repeats, results>>

\* Line 190 up to the blocking GET: the alternate-titles request, with the
\* query built for the credits request.
FetchAlternateTitles ==
    /\ pc = "FetchAlternateTitles"
    /\ trace' = Append(trace, Request("get_versions", qString))
    /\ pc' = "AltWait"
    /\ UNCHANGED <<search_type, qString, imdb_id, title_list, user_selection, credits,
                   alternate_titles, idx, repeats, results, error>>

\* Lines 190-192 and 119-122: the alternate-titles answer arrives, the
\* progress line is printed and display_alternate_titles starts its loop.
AltReturn ==
    /\ pc = "AltWait"
    /\ \E resp \in AltResponses :
         IF resp = RemoteFail
         THEN /\ Raise("RemoteServiceError", 30)
              /\ trace' = Append(trace, Response("get_versions", FALSE))
              /\ UNCHANGED <<alternate_titles, idx, repeats, results>>
         ELSE /\ alternate_titles' = resp
              /\ trace' = trace \o <<Response("get_versions", TRUE),
                                     Printed("detecting", << >>)>>
              /\ repeats' = {}
              /\ results' = << >>
              /\ IF "alternateTitles" \notin DOMAIN resp
                 THEN /\ Raise("KeyError", 122)
                      /\ UNCHANGED idx
                 ELSE /\ pc' = "Render"
                      /\ idx' = 1
                      /\ UNCHANGED error
    /\ UNCHANGED <<search_type, qString, imdb_id, title_list, user_selection, credits>>

\* Lines 122-130 and 192: one round of display_alternate_titles' loop up to
\* its detection request (or past an entry already seen); after the last
\* entry the block is returned and printed.
RenderStep ==
    /\ pc = "Render"
    /\ IF idx > Len(alternate_titles.alternateTitles)
       THEN /\ pc' = "Done"
            /\ trace' = Append(trace, Printed("alternate_titles", results))
            /\ UNCHANGED <<idx, repeats>>
       ELSE LET title == EntryTitle(alternate_titles.alternateTitles[idx])
            IN  IF ~AlreadySeen(title, repeats)
                THEN /\ pc' = "DetectWait"
                     /\ trace' = Append(trace,
                                   Request("detect_lang", [title |-> title, data |-> <<"q", "=">> \o Quote(title)]))
                     /\ UNCHANGED <<idx, repeats>>
                ELSE /\ pc' = "Render"
                     /\ repeats' = repeats \cup {title}
                     /\ idx' = idx + 1
                     /\ UNCHANGED trace
    /\ UNCHANGED <<search_type, qString, imdb_id, title_list, user_selection, credits,
                   alternate_titles, results, error>>

\* DetectReturn printing the lines gathered so far when a detection fails.  The
\* property of whole-block printing must reject it.
DetectReturnPartial ==
    /\ pc = "DetectWait"
    /\ \E resp \in DetectResponses :
         LET title == EntryTitle(alternate_titles.alternateTitles[idx])
             lang == DetectedLanguage(resp)
         IN  IF resp = RemoteFail \/ ~lang.ok
             THEN /\ Raise("RemoteServiceError", 42)
                  /\ trace' = trace \o <<Response("detect_lang", FALSE),
                                         Printed("alternate_titles", results)>>
                  /\ UNCHANGED <<idx, repeats, results>>
             ELSE /\ results' = Append(results, AltLine(lang.language, title))
                  /\ repeats' = repeats \cup {title}
                  /\ idx' = idx + 1
                  /\ pc' = "Render"
                  /\ trace' = Append(trace, Response("detect_lang", TRUE))
                  /\ UNCHANGED error
    /\ UNCHANGED <<search_type, qString, imdb_id, title_list, user_selection, credits,
                   alternate_titles>>

\* Lines 42-44 and 125-128: the detection answer arrives; its language code
\* heads the title's line and the title joins the titles seen.
DetectReturn ==
    /\ pc = "DetectWait"
    /\ \E resp \in DetectResponses :
         LET title == EntryTitle(alternate_titles.alternateTitles[idx])
             lang == DetectedLanguage(resp)
         IN  IF resp = RemoteFail
             THEN /\ Raise("RemoteServiceError", 42)
                  /\ trace' = Append(trace, Response("detect_lang", FALSE))
                  /\ UNCHANGED <<idx, repeats, results>>
             ELSE IF ~lang.ok
             THEN /\ Raise(lang.exc, lang.line)
                  /\ trace' = Append(trace, Response("detect_lang", TRUE))
                  /\ UNCHANGED <<idx, repeats, results>>
             ELSE /\ results' = Append(results, AltLine(lang.language, title))
                  /\ repeats' = repeats \cup {title}
                  /\ idx' = idx + 1
                  /\ pc' = "Render"
                  /\ trace' = Append(trace, Response("detect_lang", TRUE))
                  /\ UNCHANGED error
    /\ UNCHANGED <<search_type, qString, imdb_id, title_list, user_selection, credits,
                   alternate_titles>>

Next ==
    \/ ChooseMode
    \/ SearchByTitle
    \/ SearchReturn
    \/ Disambiguate
    \/ SearchById
    \/ FetchCredits
    \/ CreditsReturn
    \/ FetchAlternateTitles
    \/ AltReturn
    \/ RenderStep
    \/ DetectReturn

Spec == Init /\ [][Next]_vars

\* Every call returns and the operator keeps answering: no step that can be
\* taken is put off for ever.
FairSpec == Spec /\ WF_vars(Next)

\* ============================================================ properties
\* Readings of the trace and of the run's position that the properties share.
Terminal == pc \in {"Done", "Exit", "Crash"}

RequestIdx == {i \in DOMAIN trace : trace[i].ev = "request"}

PrintedKinds == {trace[i].kind : i \in {j \in DOMAIN trace : trace[j].ev = "print"}}

BlockKinds == {"search_results", "credits", "alternate_titles"}

LastRequestUrl ==
    trace[CHOOSE i \in RequestIdx : \A j \in RequestIdx : j <= i].url

\* No request is sent a second time.
NoRequestRepeated ==
    \A i, j \in RequestIdx :
        (i # j /\ trace[i].url = trace[j].url) =>
            /\ trace[i].url = "detect_lang"
            /\ trace[i].params.title # trace[j].params.title

IsSelectionInput(e) == e.ev = "input" /\ e.prompt = "Enter title number: "
IsModeInput(e) == e.ev = "input" /\ e.prompt = "Enter Search Type: "
IsIdInput(e) == e.ev = "input" /\ e.prompt = "Enter IMDb ID: "
IsInvalidEntry(e) == e.ev = "print" /\ e.kind = "Invalid Entry."
IsDetectRequest(e) == e.ev = "request" /\ e.url = "detect_lang"

\* get_user_selection has returned to main.
SelectionReturned == pc # "Disambiguate" /\ "t" \in DOMAIN user_selection

TitleMode == "n" \in DOMAIN search_type /\ search_type.n = 1
IdMode == "n" \in DOMAIN search_type /\ search_type.n = 2

\* The entries that are an integer in [1, 3], with the integer each denotes.
ValidSelectionEntries == {<<"1">>, <<"2">>, <<"3">>}
EntryValue(text) == CASE text = <<"1">> -> 1 [] text = <<"2">> -> 2 [] text = <<"3">> -> 3

\* The titles detection was asked about, in the order of the requests.
DetectCalls ==
    LET reqs == SelectSeq(trace, IsDetectRequest)
    IN  [i \in 1..Len(reqs) |-> reqs[i].params.title]

\* The title an alternate-title record stands for.
TitleOf(entry) == IF "title" \in DOMAIN entry THEN entry.title ELSE <<"N", "A">>

RECURSIVE FirstOccurrences(_)
FirstOccurrences(q) ==
    IF q = << >> THEN << >>
    ELSE LET front == FirstOccurrences(SubSeq(q, 1, Len(q) - 1))
             last == q[Len(q)]
         IN  IF \E i \in DOMAIN front : front[i] = last THEN front
             ELSE Append(front, last)

InAlternateTitles == pc \in {"Render", "DetectWait", "Done"}

\* Entries of the sequence whose turn in the loop has come.
Handled ==
    IF pc = "Done" THEN Len(alternate_titles.alternateTitles)
    ELSE IF pc = "DetectWait" THEN idx
    ELSE idx - 1

HandledTitles == [i \in 1..Handled |-> TitleOf(alternate_titles.alternateTitles[i])]

\* The lines of the alternate-titles block, once printed.
AltBlock == trace[Len(trace)].body

\* ---------------------------------------------------------------------- C1
\* C1 (as stated): every selection entry that is not an integer in
\* [1, resultCount] is answered by "Invalid Entry." and by another prompt, and
\* get_user_selection returns only after an entry that is such an integer,
\* with that integer minus one.
C1_ReturnsOnlyAfterValidEntry ==
    \A i \in DOMAIN trace :
        IsSelectionInput(trace[i]) =>
            IF trace[i].text \in ValidSelectionEntries
            THEN /\ SelectionReturned
                 /\ user_selection = [t |-> "int", n |-> EntryValue(trace[i].text) - 1]
            ELSE /\ i + 1 \in DOMAIN trace
                 /\ IsInvalidEntry(trace[i + 1])
                 /\ IF i + 2 \in DOMAIN trace THEN IsSelectionInput(trace[i + 2])
                    ELSE pc = "Disambiguate"

\* ---------------------------------------------------------------------- C2
\* C2: while display_alternate_titles runs and when it is done, detection has
\* been asked exactly about the first occurrences of the titles handled so
\* far, compared exactly, each once and in that order; the printed block has
\* one line per distinct title, in the same order.
C2_DetectOncePerDistinctTitle ==
    InAlternateTitles =>
        /\ DetectCalls = FirstOccurrences(HandledTitles)
        /\ pc = "Done" =>
              /\ Len(AltBlock) = Cardinality({HandledTitles[i] : i \in DOMAIN HandledTitles})
              /\ [i \in DOMAIN AltBlock |-> AltBlock[i].title] = FirstOccurrences(HandledTitles)

\* A finished run over [T, t, T]: a repeat of the first title after a title
\* that differs from it in case only.
C2_Witness ==
    /\ pc = "Done"
    /\ alternate_titles.alternateTitles =
           <<[title |-> TitleElCid], [title |-> TitleElCidLower], [title |-> TitleElCid]>>
    /\ DetectCalls = <<TitleElCid, TitleElCidLower>>

\* ---------------------------------------------------------------------- C3
\* C3 (as stated): in a run that a failed remote call or data-shape access
\* ends, no request was sent twice and no result text (search-hit list,
\* credits block, alternate-titles block) has been printed.
C3_NoResultTextOnFailure ==
    pc = "Crash" => (NoRequestRepeated /\ PrintedKinds \cap BlockKinds = {})

\* C3 (amended): in a run that a failed remote call or data-shape access
\* ends, no request was sent twice, nothing was printed after the failure, and
\* the block that was being fetched or rendered is not printed, not even in
\* part; the blocks of the steps completed before (the search-hit list, then
\* the credits block) have been printed.
C3_NoRetryNoPartialBlock ==
    pc = "Crash" =>
        /\ NoRequestRepeated
        /\ ~(trace[Len(trace)].ev = "print" /\ trace[Len(trace)].kind \in BlockKinds)
        /\ "alternate_titles" \notin PrintedKinds
        /\ LastRequestUrl \in {"title_search", "get_credits"} => "credits" \notin PrintedKinds
        /\ (LastRequestUrl = "title_search" /\ error.line \notin {176, 177})
              => "search_results" \notin PrintedKinds
        /\ LastRequestUrl \in {"get_versions", "detect_lang"} => "credits" \in PrintedKinds
        /\ (TitleMode /\ (LastRequestUrl # "title_search" \/ error.line \in {176, 177}))
              => "search_results" \in PrintedKinds

\* A title-mode run that a failed detection ends after an earlier title's line
\* was already built.
C3_Witness ==
    /\ pc = "Crash"
    /\ TitleMode
    /\ LastRequestUrl = "detect_lang"
    /\ Len(results) >= 1

\* ---------------------------------------------------------------------- C4
\* C4 (as stated): display_title_credits never fails on a TitleDetail, whatever
\* the length of its cast and of its director sequence.
C4_RenderCreditsNeverFails ==
    ("base" \in DOMAIN credits /\ "cast" \in DOMAIN credits /\ "crew" \in DOMAIN credits)
        => ~(error.raised /\ error.line \in 93..105)

\* ---------------------------------------------------------------------- C5
\* The mode entries of the model that denote the integer 1 or 2.
ValidModeEntries ==
    {<<"1">>, <<"2">>, <<" ", "2">>, <<"\t", "0", "_", "2", "\r">>, <<"U+0662">>}

\* ^tt[0-9]{7,8}$ on a text without line breaks
IsCatalogueId(x) ==
    /\ Len(x) \in {9, 10}
    /\ SubSeq(x, 1, 2) = <<"t", "t">>
    /\ \A i \in 3..Len(x) : x[i] \in Digits

\* C5: a mode entry that is not the integer 1 or 2, and in ID mode an id that
\* is not a catalogue id, each ends the run with its error message as the last
\* thing done, after a single prompt of its kind and without any request; so
\* every credits request of ID mode carries a catalogue id.
C5_FatalValidation ==
    /\ \A i \in DOMAIN trace :
          (IsModeInput(trace[i]) /\ trace[i].text \notin ValidModeEntries) =>
              /\ pc = "Exit"
              /\ i = Len(trace) - 1
              /\ trace[Len(trace)] = Printed("Invalid Selecton.", << >>)
              /\ ModePrompts = 1
              /\ RequestIdx = {}
    /\ \A i \in DOMAIN trace :
          (IsIdInput(trace[i]) /\ ~IsCatalogueId(trace[i].text)) =>
              /\ pc = "Exit"
              /\ i = Len(trace) - 1
              /\ trace[Len(trace)] = Printed("Invalid ID.", << >>)
              /\ Cardinality({j \in DOMAIN trace : IsIdInput(trace[j])}) = 1
              /\ RequestIdx = {}
    /\ IdMode =>
          \A i \in RequestIdx :
              /\ trace[i].url # "title_search"
              /\ trace[i].url \in {"get_credits", "get_versions"}
                    => IsCatalogueId(trace[i].params.tconst)

\* An ID-mode run ended by an id that only begins like a catalogue id.
C5_Witness ==
    /\ pc = "Exit"
    /\ IdMode
    /\ imdb_id = ID_9 \o <<"x">>

\* ---------------------------------------------------------------------- C6
\* The place of an event in the workflow.
Rank(e) ==
    IF e.ev = "input"
    THEN (IF IsModeInput(e) THEN 0 ELSE IF IsSelectionInput(e) THEN 3 ELSE 1)
    ELSE IF e.ev = "print"
    THEN (CASE e.kind \in {"menu", "Invalid Selecton."} -> 0
            [] e.kind = "Invalid ID." -> 1
            [] e.kind = "search_results" -> 2
            [] e.kind = "Invalid Entry." -> 3
            [] e.kind = "credits" -> 5
            [] e.kind = "detecting" -> 7
            [] e.kind = "alternate_titles" -> 9)
    ELSE (CASE e.url = "title_search" -> 1
            [] e.url = "get_credits" -> 4
            [] e.url = "get_versions" -> 6
            [] e.url = "detect_lang" -> 8)

Answered(url) ==
    \E i \in DOMAIN trace : trace[i].ev = "response" /\ trace[i].url = url /\ trace[i].ok

\* C6: a request is followed at once by its own answer and by nothing else
\* until then, so no two calls overlap; the events follow the workflow order
\* (search, hit list, selection prompt, credits, alternate titles, detections);
\* and each call is sent only after the calls it depends on were answered.
C6_SequentialCalls ==
    /\ \A i \in RequestIdx :
          i < Len(trace) =>
              (trace[i + 1].ev = "response" /\ trace[i + 1].url = trace[i].url)
    /\ \A i \in DOMAIN trace :
          trace[i].ev = "response" =>
              (i > 1 /\ trace[i - 1].ev = "request" /\ trace[i - 1].url = trace[i].url)
    /\ \A i \in 1..(Len(trace) - 1) : Rank(trace[i]) <= Rank(trace[i + 1])
    /\ \A i \in RequestIdx :
          /\ trace[i].url = "title_search" => TitleMode
          /\ (trace[i].url = "get_credits" /\ TitleMode) =>
                /\ Answered("title_search")
                /\ \E k \in 1..(i - 1) : IsSelectionInput(trace[k])
          /\ trace[i].url = "get_versions" => Answered("get_credits")
          /\ trace[i].url = "detect_lang" => Answered("get_versions")

\* A finished title-mode run with two detections.
C6_Witness ==
    /\ pc = "Done"
    /\ TitleMode
    /\ Len(DetectCalls) = 2

\* ---------------------------------------------------------------------- C7
\* C7: the credits and the alternate-titles requests carry the one-key query
\* {tconst: x} with the id x as entered or extracted, and the credits block
\* shows x when x has at most 9 characters and x without its first character
\* otherwise.
C7_RawIdRequestedFormattedIdShown ==
    /\ \A i \in RequestIdx :
          trace[i].url \in {"get_credits", "get_versions"} =>
              /\ DOMAIN trace[i].params = {"tconst"}
              /\ trace[i].params.tconst = imdb_id
    /\ \A i \in DOMAIN trace :
          (trace[i].ev = "print" /\ trace[i].kind = "credits") =>
              /\ trace[i].body.imdb = IF Len(imdb_id) <= 9 THEN imdb_id
                                      ELSE SubSeq(imdb_id, 2, Len(imdb_id))
              /\ imdb_id = ID_9 => trace[i].body.imdb = ID_9
              /\ imdb_id = ID_10 =>
                    trace[i].body.imdb = <<"t", "0", "1", "2", "3", "4", "5", "6", "7">>

\* An ID-mode run on a ten-character id, with the credits block printed and
\* the alternate-titles request sent.
C7_Witness ==
    /\ IdMode
    /\ imdb_id = ID_10
    /\ "credits" \in PrintedKinds
    /\ LastRequestUrl = "get_versions"

\* ---------------------------------------------------------------------- C8
\* The state of the orchestrator's state machine a position belongs to.
StageOf(p) ==
    CASE p = "SearchWait" -> "SearchByTitle"
      [] p = "CreditsWait" -> "FetchCredits"
      [] p \in {"AltWait", "Render", "DetectWait"} -> "FetchAlternateTitles"
      [] OTHER -> p

StageEdges ==
    { <<"ChooseMode", "SearchByTitle">>, <<"ChooseMode", "SearchById">>,
      <<"SearchByTitle", "Disambiguate">>, <<"Disambiguate", "FetchCredits">>,
      <<"SearchById", "FetchCredits">>, <<"FetchCredits", "FetchAlternateTitles">>,
      <<"FetchAlternateTitles", "Done">>,
      <<"ChooseMode", "Exit">>, <<"SearchById", "Exit">>,
      <<"SearchByTitle", "Crash">>, <<"Disambiguate", "Crash">>,
      <<"FetchCredits", "Crash">>, <<"FetchAlternateTitles", "Crash">> }

StageStep ==
    \/ <<StageOf(pc), StageOf(pc')>> \in StageEdges
    \/ StageOf(pc) = StageOf(pc') /\ pc # "ChooseMode"

\* C8: every step follows ChooseMode -> {SearchByTitle -> Disambiguate,
\* SearchById} -> FetchCredits -> FetchAlternateTitles -> Done or ends the run;
\* the mode prompt is issued once, on leaving ChooseMode, and never again; and
\* when calls return and the operator keeps answering, the run ends.
C8_Progress ==
    /\ [][StageStep]_vars
    /\ [](ModePrompts = IF pc = "ChooseMode" THEN 0 ELSE 1)
    /\ <>Terminal

\* A title-mode run that reached Done after an invalid selection entry.
C8_Witness ==
    /\ pc = "Done"
    /\ TitleMode
    /\ InvalidCount >= 1

\* ---------------------------------------------------------------------- C9
\* C9: what get_user_selection returns is an integer in [0, RESULT_COUNT) and
\* a position of the hit list, so reading the selected hit never raises.
C9_SelectedIndexInBounds ==
    /\ SelectionReturned =>
          /\ user_selection.t = "int"
          /\ 0 <= user_selection.n
          /\ user_selection.n < RESULT_COUNT
          /\ user_selection.n + 1 \in DOMAIN title_list.results
    /\ ~(error.raised /\ error.line = 176)
    /\ pc = "Disambiguate" => Len(title_list.results) >= RESULT_COUNT

\* The last position of a three-hit list selected after an invalid entry.
C9_Witness ==
    /\ SelectionReturned
    /\ user_selection.n = RESULT_COUNT - 1
    /\ Len(title_list.results) = RESULT_COUNT
    /\ InvalidCount >= 1

\* --------------------------------------------------------------------- C10
TitleLess(entry) == "title" \notin DOMAIN entry

\* C10: once a title-less entry has had its turn, detection has been asked
\* about "NA"; detection is asked about "NA" at most once, however many
\* title-less entries and entries titled "NA" there are; and the printed block
\* then has exactly one line for "NA".
C10_MissingTitleIsNA ==
    InAlternateTitles =>
        LET entries == alternate_titles.alternateTitles
            asNA == {i \in 1..Handled : TitleLess(entries[i]) \/ entries[i].title = <<"N", "A">>}
        IN  /\ (\E i \in 1..Handled : TitleLess(entries[i])) =>
                  \E k \in DOMAIN DetectCalls : DetectCalls[k] = <<"N", "A">>
            /\ Cardinality({k \in DOMAIN DetectCalls : DetectCalls[k] = <<"N", "A">>}) <= 1
            /\ (\E k \in DOMAIN DetectCalls : DetectCalls[k] = <<"N", "A">>) => asNA # {}
            /\ pc = "Done" =>
                  Cardinality({k \in DOMAIN AltBlock : AltBlock[k].title = <<"N", "A">>})
                      = IF asNA = {} THEN 0 ELSE 1

\* A finished run over a title-less entry, an entry titled "NA" and another
\* title-less entry.
C10_Witness ==
    /\ pc = "Done"
    /\ Len(alternate_titles.alternateTitles) = 3
    /\ TitleLess(alternate_titles.alternateTitles[1])
    /\ ~TitleLess(alternate_titles.alternateTitles[2])
    /\ alternate_titles.alternateTitles[2].title = <<"N", "A">>
    /\ TitleLess(alternate_titles.alternateTitles[3])
    /\ DetectCalls = << <<"N", "A">> >>

====
